---- MODULE Spec2Model ----
(***************************************************************************)
(* State-machine model of the MusTINN physics-informed solver:             *)
(*   - PINN.train / PINN.train_step            (src/src/models/model.py)   *)
(*   - NavierStokesLoss                        (src/src/training/loss.py)  *)
(*   - FlowOverAirfoil mesh set-up and train   (src/src/tests/...)         *)
(*   - LidDrivenCavity.getBoundaryCondition    (src/src/tests/...)         *)
(*                                                                         *)
(* float32 numbers are modelled as exact rationals n/d; d = 0 stands for   *)
(* every non-finite float (NaN, +-inf), which is absorbing in arithmetic.  *)
(***************************************************************************)
EXTENDS Integers, Sequences, FiniteSets, TLC

(***************************************************************************)
(* Bounds of the exploration.                                              *)
(***************************************************************************)
MaxEpochs == 4
MaxInterval == 2
MaxPoints == 2
MaxEdits == 1
MaxSessionSteps == 2

(***************************************************************************)
(* Numbers.                                                                *)
(***************************************************************************)
NaN == [n |-> 0, d |-> 0]

F(i) == [n |-> i, d |-> 1]

IsFinite(a) == a.d # 0

Abs(i) == IF i < 0 THEN -i ELSE i

RECURSIVE GCD(_, _)
GCD(a, b) == IF b = 0 THEN a ELSE GCD(b, a % b)

Q(n, d) ==
  IF d = 0 THEN NaN
  ELSE LET g == GCD(Abs(n), d) IN [n |-> n \div g, d |-> d \div g]

Add(a, b) ==
  IF IsFinite(a) /\ IsFinite(b) THEN Q(a.n * b.d + b.n * a.d, a.d * b.d) ELSE NaN

Sub(a, b) ==
  IF IsFinite(a) /\ IsFinite(b) THEN Q(a.n * b.d - b.n * a.d, a.d * b.d) ELSE NaN

Mul(a, b) ==
  IF IsFinite(a) /\ IsFinite(b) THEN Q(a.n * b.n, a.d * b.d) ELSE NaN

Square(a) == Mul(a, a)

RECURSIVE SumSeq(_)
SumSeq(s) == IF s = <<>> THEN F(0) ELSE Add(Head(s), SumSeq(Tail(s)))

\* tf.reduce_mean: the mean of an empty tensor is 0/0 = NaN.
ReduceMean(s) ==
  IF Len(s) = 0 THEN NaN
  ELSE LET t == SumSeq(s) IN IF IsFinite(t) THEN Q(t.n, t.d * Len(s)) ELSE NaN

\* np.linspace(a, b, N) for integer end points a <= b.
Linspace(a, b, N) ==
  [i \in 1..N |-> IF N = 1 THEN F(a) ELSE Q(a * (N - 1) + (i - 1) * (b - a), N - 1)]

Full(N, c) == [i \in 1..N |-> c]

\* np.flip
Flip(s) == [i \in 1..Len(s) |-> s[Len(s) + 1 - i]]

(***************************************************************************)
(* Python values held in the boundary dictionaries.  Every value is a      *)
(* record [k, a, dir]: k the kind, a the numbers, dir a direction name.    *)
(***************************************************************************)
Absent == [k |-> "absent", a |-> <<>>, dir |-> "-"]          \* key not in the dict

PyNone == [k |-> "None", a |-> <<>>, dir |-> "-"]

Arr(s) == [k |-> "arr", a |-> s, dir |-> "-"]                \* numpy array

Num(c) == [k |-> "num", a |-> <<c>>, dir |-> "-"]            \* python float

Obj == [k |-> "obj", a |-> <<>>, dir |-> "-"]                \* dict or object

ValueSpec(c) == [k |-> "value", a |-> <<c>>, dir |-> "-"]    \* {'value': c}

GradientSpec(g, dir) == [k |-> "gradient", a |-> <<g>>, dir |-> dir]

IsNone(v) == v.k = "None"

IsAbsent(v) == v.k = "absent"

(***************************************************************************)
(* The network: an opaque differentiable map (x, y) -> (u, v, p) with      *)
(* trainable parameters theta.  It is represented by the one-parameter     *)
(* family u = theta*y, v = 0, p = (theta - 1)*x, so that outputs, first    *)
(* and second derivatives are exact; non-finite parameters give non-finite *)
(* outputs and derivatives.                                                *)
(***************************************************************************)
Zero(theta) == Mul(theta, F(0))

ModelOut(theta, x, y, idx) ==
  CASE idx = 0 -> Mul(theta, y)
    [] idx = 1 -> Add(Zero(theta), Mul(F(0), Add(x, y)))
    [] idx = 2 -> Mul(Sub(theta, F(1)), x)

\* d(channel idx)/d(axis) at (x, y)
ModelGrad(theta, x, y, idx, axis) ==
  LET z == Add(Zero(theta), Mul(F(0), Add(x, y))) IN
  CASE idx = 0 /\ axis = "y" -> Add(theta, z)
    [] idx = 2 /\ axis = "x" -> Add(Sub(theta, F(1)), z)
    [] OTHER -> z

\* d2(channel idx)/d(axis)2 at (x, y)
ModelGrad2(theta, x, y, idx, axis) == Add(Zero(theta), Mul(F(0), Add(x, y)))

(***************************************************************************)
(* NavierStokesLoss (src/src/training/loss.py).  A call either returns a   *)
(* value or raises; no call changes any state.                             *)
(***************************************************************************)
Nu == Q(1, 100)

NoTerms == <<NaN, NaN, NaN>>

Raise(e) == [ok |-> FALSE, err |-> e, val |-> NaN, terms |-> NoTerms]

Return(v) == [ok |-> TRUE, err |-> "", val |-> v, terms |-> NoTerms]

\* convert_and_reshape: None stays None, anything else becomes a column.
convert_and_reshape(tensor) == IF ~IsNone(tensor) THEN Arr(tensor.a) ELSE PyNone

\* tf.convert_to_tensor(., dtype=tf.float32) accepts arrays and numbers only.
Convertible(v) == v.k \in {"arr", "num"}

\* imposeBoundaryCondition: None stays None, the rest is converted (or raises).
imposeBoundaryCondition(uBc, vBc, pBc) ==
  IF \E bc \in {uBc, vBc, pBc} : ~IsNone(bc) /\ ~Convertible(bc)
  THEN Raise("ValueError")
  ELSE Return(F(0))

\* pred - bc: pred has shape [N]; a column target [M,1] broadcasts to [M,N],
\* a scalar target to [N].
Broadcast(pred, bc) ==
  LET N == Len(pred)
      M == Len(bc.a)
  IN IF bc.k = "arr"
     THEN [j \in 1..(M * N) |-> Sub(pred[((j - 1) % N) + 1], bc.a[((j - 1) \div N) + 1])]
     ELSE [i \in 1..N |-> Sub(pred[i], bc.a[1])]

\* compute_loss(bc, idx) of computeBoundaryLoss
compute_loss(theta, xBc, yBc, bc, idx) ==
  IF ~IsNone(bc)
  THEN IF IsNone(xBc) \/ IsNone(yBc)
       THEN Raise("ValueError")                                  \* tf.cast(None)
       ELSE IF Len(xBc.a) # Len(yBc.a)
       THEN Raise("InvalidArgumentError")                        \* tf.concat
       ELSE LET pred == [i \in 1..Len(xBc.a) |->
                           ModelOut(theta, xBc.a[i], yBc.a[i], idx)]
                diff == Broadcast(pred, bc)
            IN  Return(ReduceMean([j \in 1..Len(diff) |-> Square(diff[j])]))
  ELSE Return(F(0))

computeBoundaryLoss(theta, xBc, yBc, uBc, vBc, pBc) ==
  LET uBc_loss == compute_loss(theta, xBc, yBc, uBc, 0)
      vBc_loss == compute_loss(theta, xBc, yBc, vBc, 1)
      pBc_loss == compute_loss(theta, xBc, yBc, pBc, 2)
  IN  IF ~uBc_loss.ok THEN uBc_loss
      ELSE IF ~vBc_loss.ok THEN vBc_loss
      ELSE IF ~pBc_loss.ok THEN pBc_loss
      ELSE [ok |-> TRUE, err |-> "",
            val |-> Add(Add(uBc_loss.val, vBc_loss.val), pBc_loss.val),
            terms |-> <<uBc_loss.val, vBc_loss.val, pBc_loss.val>>]

\* One pass of the loop over self.mesh.boundaries.items(): the five key
\* look-ups, the conversions, the three boundary terms.
BoundaryLoss(theta, boundary_data) ==
  IF \E key \in {"x", "y", "u", "v", "p"} : IsAbsent(boundary_data[key])
  THEN Raise("KeyError")
  ELSE LET xBc == convert_and_reshape(boundary_data.x)
           yBc == convert_and_reshape(boundary_data.y)
           bc  == imposeBoundaryCondition(boundary_data.u, boundary_data.v,
                                          boundary_data.p)
       IN  IF ~bc.ok THEN bc
           ELSE computeBoundaryLoss(theta, xBc, yBc, boundary_data.u,
                                    boundary_data.v, boundary_data.p)

\* f_loss_u + f_loss_v + continuity_loss on the interior points.
InteriorLoss(theta, X, Y) ==
  LET G(i, idx, axis)  == ModelGrad(theta, X[i], Y[i], idx, axis)
      G2(i, idx, axis) == ModelGrad2(theta, X[i], Y[i], idx, axis)
      O(i, idx)        == ModelOut(theta, X[i], Y[i], idx)
      continuity(i) == Add(G(i, 0, "x"), G(i, 1, "y"))
      momentum_u(i) ==
        Sub(Add(Add(Mul(O(i, 0), G(i, 0, "x")), Mul(O(i, 1), G(i, 0, "y"))),
                G(i, 2, "x")),
            Mul(Nu, Add(G2(i, 0, "x"), G2(i, 0, "y"))))
      momentum_v(i) ==
        Sub(Add(Add(Mul(O(i, 0), G(i, 1, "x")), Mul(O(i, 1), G(i, 1, "y"))),
                G(i, 2, "y")),
            Mul(Nu, Add(G2(i, 1, "x"), G2(i, 1, "y"))))
      f_loss_u == ReduceMean([i \in 1..Len(X) |-> Square(momentum_u(i))])
      f_loss_v == ReduceMean([i \in 1..Len(X) |-> Square(momentum_v(i))])
      continuity_loss == ReduceMean([i \in 1..Len(X) |-> Square(continuity(i))])
  IN  Add(Add(f_loss_u, f_loss_v), continuity_loss)

\* The boundaries the loss loop iterates over.
LossBoundaries(m) == m.boundaries

\* total_loss after the loop over the boundaries, or the first exception.
\* counted: the names of the boundaries whose terms were added.
RECURSIVE AddBoundaries(_, _, _, _)
AddBoundaries(theta, bs, total, counted) ==
  IF bs = <<>>
  THEN [ok |-> TRUE, err |-> "", val |-> total, counted |-> counted, ran2D |-> TRUE]
  ELSE LET r == BoundaryLoss(theta, Head(bs)) IN
       IF ~r.ok
       THEN [ok |-> FALSE, err |-> r.err, val |-> NaN, counted |-> counted,
             ran2D |-> TRUE]
       ELSE AddBoundaries(theta, Tail(bs), Add(total, r.val),
                          Append(counted, Head(bs).name))

loss_function2D(m, theta) ==
  IF IsNone(m.X) \/ IsNone(m.Y)
  THEN [ok |-> FALSE, err |-> "ValueError", val |-> NaN, counted |-> <<>>,
        ran2D |-> TRUE]
  ELSE AddBoundaries(theta, LossBoundaries(m),
                     Add(F(0), InteriorLoss(theta, m.X.a, m.Y.a)), <<>>)

\* Variant of loss_function that falls back to the 2D loss.
loss_functionFallback(m, theta) == loss_function2D(m, theta)

loss_function(m, theta) ==
  IF m.is2D
  THEN loss_function2D(m, theta)
  ELSE [ok |-> FALSE, err |-> "NotImplementedError", val |-> NaN,
        counted |-> <<>>, ran2D |-> FALSE]

(***************************************************************************)
(* Mesh set-up: FlowOverAirfoil (src/src/tests/FlowOverAirfoil.py) and the *)
(* boundary layout of LidDrivenCavity (src/src/tests/LidDrivenCavity.py).  *)
(* A boundary dictionary is a record over every key either layout uses;    *)
(* a key the dictionary does not hold is Absent.  cu, cv, cp are the       *)
(* entries of the nested 'conditions' dictionary.                          *)
(***************************************************************************)
xRange == <<0, 1>>

yRange == <<0, 1>>

\* AoA = 0.0: u_inf = cos(0), v_inf = sin(0)
u_inf == F(1)

v_inf == F(0)

\* generate_airfoil_coords, with the leading and the trailing edge as the
\* only stations (x = 0 and x = c = 1); 63/50000 is the thickness at x = 1.
xAirfoil == <<F(0), F(1)>> \o Flip(<<F(0), F(1)>>)

yAirfoil == <<F(0), Q(63, 50000)>> \o Flip(<<F(0), Q(-63, 50000)>>)

Conditions(name, cu, cv, cp) ==
  [name |-> name, x |-> PyNone, y |-> PyNone,
   u |-> Absent, v |-> Absent, p |-> Absent,
   conditions |-> Obj, cu |-> cu, cv |-> cv, cp |-> cp, bc_type |-> Obj]

\* _initialize_boundaries: self.mesh.boundaries
AirfoilExterior ==
  << Conditions("Inlet", ValueSpec(u_inf), ValueSpec(v_inf), GradientSpec(F(0), "x")),
     Conditions("Outlet", PyNone, PyNone, PyNone),
     Conditions("top", ValueSpec(u_inf), ValueSpec(v_inf), GradientSpec(F(0), "y")),
     Conditions("bottom", ValueSpec(u_inf), ValueSpec(v_inf), GradientSpec(F(0), "y")) >>

\* _initialize_boundaries: self.mesh.interiorBoundaries
AirfoilInterior ==
  << Conditions("Airfoil", ValueSpec(F(0)), ValueSpec(F(0)),
                GradientSpec(F(0), "normal")) >>

_initialize_boundaries(m) ==
  [m EXCEPT !.boundaries = AirfoilExterior, !.interiorBoundaries = AirfoilInterior]

\* The boundary point sets generateMesh lays out, by boundary name.
BoundaryCoords(name, NBoundary) ==
  CASE name = "top" ->
         <<Linspace(xRange[1], xRange[2], NBoundary), Full(NBoundary, F(yRange[2]))>>
    [] name = "bottom" ->
         <<Linspace(xRange[1], xRange[2], NBoundary), Full(NBoundary, F(yRange[1]))>>
    [] name = "Inlet" ->
         <<Full(NBoundary, F(xRange[1])), Linspace(yRange[1], yRange[2], NBoundary)>>
    [] name = "Outlet" ->
         <<Full(NBoundary, F(xRange[2])), Linspace(yRange[1], yRange[2], NBoundary)>>
    [] name = "Airfoil" -> <<xAirfoil, yAirfoil>>

SetCoords(b, NBoundary) ==
  [b EXCEPT !.x = Arr(BoundaryCoords(b.name, NBoundary)[1]),
            !.y = Arr(BoundaryCoords(b.name, NBoundary)[2])]

\* The check _validate_boundary_conditions makes of one boundary.
BoundaryProblem(boundary) ==
  IF \E key \in {"x", "y", "conditions", "bc_type"} : IsAbsent(boundary[key])
  THEN "Missing required fields"
  ELSE IF IsNone(boundary.x) \/ IsNone(boundary.y)
  THEN "Coordinates not set"
  ELSE ""

\* _validate_boundary_conditions: "" or the ValueError raised, which names
\* the first offending boundary.
_validate_boundary_conditions(m) ==
  LET all == m.boundaries \o m.interiorBoundaries
      bad == {i \in 1..Len(all) : BoundaryProblem(all[i]) # ""}
  IN  IF bad = {} THEN ""
      ELSE LET i == CHOOSE j \in bad : \A k \in bad : j <= k
           IN  BoundaryProblem(all[i]) \o " in boundary " \o all[i].name

\* Mesh.generateMesh: samples the interior collocation points.
MeshGenerateMesh(m) ==
  [m EXCEPT !.X = Arr(Linspace(xRange[1], xRange[2], 2)),
            !.Y = Arr(Linspace(yRange[1], yRange[2], 2))]

\* FlowOverAirfoil.generateMesh, up to the validation: the mesh it leaves
\* when the validation raises.
generateMeshCoords(m, NBoundary) ==
  LET m1 == _initialize_boundaries(m) IN
  [m1 EXCEPT
     !.boundaries = [i \in 1..Len(m1.boundaries) |->
                       SetCoords(m1.boundaries[i], NBoundary)],
     !.interiorBoundaries = [i \in 1..Len(m1.interiorBoundaries) |->
                               SetCoords(m1.interiorBoundaries[i], NBoundary)]]

generateMesh(m, NBoundary) ==
  LET m2 == generateMeshCoords(m, NBoundary) IN
  IF _validate_boundary_conditions(m2) # "" THEN m2 ELSE MeshGenerateMesh(m2)

\* LidDrivenCavity.getBoundaryCondition(N0, ..., 'uniform')
CavityBoundary(name, x, y, u) ==
  [name |-> name, x |-> Arr(x), y |-> Arr(y),
   u |-> Arr(Full(Len(x), u)), v |-> Arr(Full(Len(y), F(0))), p |-> PyNone,
   conditions |-> Absent, cu |-> PyNone, cv |-> PyNone, cp |-> PyNone,
   bc_type |-> Absent]

getBoundaryCondition(N0) ==
  LET yBc == Linspace(yRange[1], yRange[2], N0)
      xBc == Linspace(xRange[1], xRange[2], N0)
  IN << CavityBoundary("left", Full(N0, F(xRange[1])), yBc, F(0)),
        CavityBoundary("right", Full(N0, F(xRange[2])), yBc, F(0)),
        CavityBoundary("bottom", xBc, Full(N0, F(yRange[1])), F(0)),
        CavityBoundary("top", xBc, Full(N0, F(yRange[2])), F(1)) >>

\* What a caller can do to one boundary dictionary of the mesh.
EditKinds == {"del_conditions", "del_x", "x_None", "free", "p_gradient", "u_nan"}

ApplyEdit(b, e) ==
  CASE e = "del_conditions" -> [b EXCEPT !.conditions = Absent]
    [] e = "del_x"          -> [b EXCEPT !.x = Absent]
    [] e = "x_None"         -> [b EXCEPT !.x = PyNone]
    [] e = "free"           -> [b EXCEPT !.u = PyNone, !.v = PyNone, !.p = PyNone]
    [] e = "p_gradient"     -> [b EXCEPT !.p = GradientSpec(F(0), "x")]
    [] e = "u_nan"          -> [b EXCEPT !.u = Num(NaN)]

(***************************************************************************)
(* The optimizer (tf.keras.optimizers.Adam behind PINN.train_step).        *)
(***************************************************************************)
\* A boundary with no point adds nothing to any gradient: the derivative
\* of the mean of an empty tensor is an empty tensor.
HasPoints(b) == ~(b.x.k = "arr" /\ Len(b.x.a) = 0)

SmoothLoss(m, theta) ==
  loss_function([m EXCEPT !.boundaries = SelectSeq(m.boundaries, HasPoints)],
                theta).val

\* tape.gradient(loss, trainable_variables): d loss / d theta.  The loss is
\* quadratic in theta, so the central difference is the derivative.
Gradients(m, theta) ==
  LET up   == SmoothLoss(m, Add(theta, F(1)))
      down == SmoothLoss(m, Sub(theta, F(1)))
  IN  Mul(Q(1, 2), Sub(up, down))

\* optimizer.apply_gradients: one step of unit length against the gradient;
\* a non-finite gradient leaves non-finite parameters.
apply_gradients(theta, g) ==
  IF ~IsFinite(g) THEN NaN
  ELSE IF g.n > 0 THEN Sub(theta, F(1))
  ELSE IF g.n < 0 THEN Add(theta, F(1))
  ELSE theta

(***************************************************************************)
(* State.                                                                  *)
(***************************************************************************)
VARIABLES
  mesh,       \* the Mesh: is2D, X, Y, boundaries, interiorBoundaries
  pinn,       \* the PINN: eq, theta (trainable parameters), iterations
  store,      \* trainedModels/<eq>.tf : the saved parameters, by eq
  call,       \* the running PINN.train call: its arguments, locals, position,
              \* the error it raised, and optimizer.iterations at its start
  edits,      \* number of caller edits of boundary dictionaries so far
  writes,     \* the checkpoint writes of the train call: step, tag, theta
  lossLog,    \* the loss each train_step of the train call returned
  lastEval,   \* outcome of the latest loss evaluation
  failedAt    \* the step whose loss evaluation raised (0: none)

vars == <<mesh, pinn, store, call, edits, writes, lossLog, lastEval, failedAt>>

Tags == {"LidDrivenCavity", "FlowOverAirfoil"}

InitialThetas == {F(0), F(2)}

NoEval == [ok |-> TRUE, err |-> "none", val |-> NaN, counted |-> <<>>, ran2D |-> FALSE]

\* Variant of Idle whose history lists are not fresh.
IdleKeepsHistory ==
  [pc |-> "idle", epochs |-> 0, print_interval |-> 1, autosave_interval |-> 1,
   epoch |-> 0, loss |-> NaN, loss_history |-> <<F(1)>>, epoch_history |-> <<1>>,
   err |-> "", iterations0 |-> 0]

Idle ==
  [pc |-> "idle", epochs |-> 0, print_interval |-> 1, autosave_interval |-> 1,
   epoch |-> 0, loss |-> NaN, loss_history |-> <<>>, epoch_history |-> <<>>,
   err |-> "", iterations0 |-> 0]

\* Mesh(is2D) and PINN(..., eq=...) as constructed.
Init ==
  /\ \E is2D \in BOOLEAN :
       mesh = [is2D |-> is2D, X |-> PyNone, Y |-> PyNone,
               boundaries |-> <<>>, interiorBoundaries |-> <<>>]
  /\ \E eq \in Tags, theta \in InitialThetas :
       pinn = [eq |-> eq, theta |-> theta, iterations |-> 0]
  /\ store = [t \in Tags |-> [saved |-> FALSE, theta |-> NaN]]
  /\ call = Idle
  /\ edits = 0
  /\ writes = <<>>
  /\ lossLog = <<>>
  /\ lastEval = NoEval
  /\ failedAt = 0

TrainVars == <<pinn, store, call, writes, lossLog, lastEval, failedAt>>

(***************************************************************************)
(* Mesh set-up operations, before train is called.                         *)
(***************************************************************************)
\* FlowOverAirfoil.generateMesh.  FlowOverAirfoil builds its mesh as
\* Mesh(True): it acts on a 2D mesh only.
GenerateMesh ==
  /\ call.pc = "idle"
  /\ mesh.is2D
  /\ \E NBoundary \in 1..MaxPoints : mesh' = generateMesh(mesh, NBoundary)
  /\ UNCHANGED <<edits, TrainVars>>

\* Mesh.generateMesh called on the mesh itself.
MeshGenerate ==
  /\ call.pc = "idle"
  /\ mesh' = MeshGenerateMesh(mesh)
  /\ UNCHANGED <<edits, TrainVars>>

\* The caller registers boundaries in the layout of getBoundaryCondition.
RegisterCavityBoundaries ==
  /\ call.pc = "idle"
  /\ \E N0 \in 0..MaxPoints : mesh' = [mesh EXCEPT !.boundaries = getBoundaryCondition(N0)]
  /\ UNCHANGED <<edits, TrainVars>>

\* The caller changes one boundary dictionary of the mesh.
EditBoundary ==
  /\ call.pc = "idle"
  /\ edits < MaxEdits
  /\ \E i \in 1..Len(mesh.boundaries), e \in EditKinds :
       mesh' = [mesh EXCEPT !.boundaries[i] = ApplyEdit(@, e)]
  /\ edits' = edits + 1
  /\ UNCHANGED TrainVars

(***************************************************************************)
(* FlowOverAirfoil.train -> PINN.train                                     *)
(***************************************************************************)
\* Variant of PrintDue that tests the zero-based epoch.
PrintDueZeroBased(epoch, print_interval) == epoch % print_interval = 0

\* (epoch + 1) % print_interval == 0
PrintDue(epoch, print_interval) == (epoch + 1) % print_interval = 0

\* Variant of AutosaveDue that tests the zero-based epoch.
AutosaveDueZeroBased(epoch, autosave_interval) == epoch % autosave_interval = 0

\* (epoch + 1) % autosave_interval == 0
AutosaveDue(epoch, autosave_interval) == (epoch + 1) % autosave_interval = 0

\* Variant of SavePath with one path for every problem.
SavePathShared(p) == "LidDrivenCavity"

\* f'trainedModels/{self.eq}.tf'
SavePath(p) == p.eq

\* Variant of LoopHead that runs one epoch more than range(epochs).
LoopHeadInclusive(epoch, epochs) == IF epoch <= epochs THEN "loss" ELSE "done"

\* for epoch in range(epochs): the position after the loop head
LoopHead(epoch, epochs) == IF epoch < epochs THEN "loss" ELSE "done"

\* Variant of AfterLoss that goes to the history append without the
\* optimizer update.
AfterLossSkipsApply(r) == IF r.ok THEN "print" ELSE "raised"

\* Variant of AfterLoss that swallows the exception and goes on.
AfterLossSwallowed(r) == "apply"

\* Where train_step goes after loss_function(): an exception leaves
\* train_step and train, a value goes on to the gradients.
AfterLoss(r) == IF r.ok THEN "apply" ELSE "raised"

\* getLossFunction builds NavierStokesLoss(mesh, model); PINN.train sets up
\* its lists and the figure and enters the loop.  Nothing is validated.
Train ==
  /\ call.pc = "idle"
  /\ \E epochs \in 0..MaxEpochs, print_interval \in 1..MaxInterval,
        autosave_interval \in 1..MaxInterval :
       call' = [Idle EXCEPT !.pc = LoopHead(0, epochs), !.epochs = epochs,
                            !.print_interval = print_interval,
                            !.autosave_interval = autosave_interval,
                            !.iterations0 = pinn.iterations]
  /\ writes' = <<>>
  /\ lossLog' = <<>>
  /\ failedAt' = 0
  /\ lastEval' = NoEval
  /\ UNCHANGED <<mesh, pinn, store, edits>>

\* The outcome of loss_function() is recorded and train_step moves on.
Evaluated(r) ==
  /\ call' = [call EXCEPT !.pc = AfterLoss(r), !.loss = r.val, !.err = r.err]
  /\ lossLog' = IF r.ok THEN Append(lossLog, r.val) ELSE lossLog
  /\ failedAt' = IF r.ok THEN failedAt ELSE call.epoch + 1
  /\ lastEval' = r
  /\ UNCHANGED <<mesh, pinn, store, edits, writes>>

\* train_step: loss = loss_function()
TrainStepLoss ==
  /\ call.pc = "loss"
  /\ Evaluated(loss_function(mesh, pinn.theta))

\* train_step: the runtime fails while it executes the operations of
\* loss_function2D (resources exhausted, interrupt).
TrainStepLossFails ==
  /\ call.pc = "loss"
  /\ mesh.is2D
  /\ Evaluated([ok |-> FALSE, err |-> "RuntimeError", val |-> NaN,
                counted |-> <<>>, ran2D |-> TRUE])

\* train_step: gradients = tape.gradient(...); optimizer.apply_gradients(...)
TrainStepApply ==
  /\ call.pc = "apply"
  /\ pinn' = [pinn EXCEPT !.theta = apply_gradients(@, Gradients(mesh, @)),
                          !.iterations = @ + 1]
  /\ call' = [call EXCEPT !.pc = "print"]
  /\ UNCHANGED <<mesh, store, edits, writes, lossLog, lastEval, failedAt>>

\* if (epoch + 1) % print_interval == 0: the two history lists grow
PrintStep ==
  /\ call.pc = "print"
  /\ call' = IF PrintDue(call.epoch, call.print_interval)
             THEN [call EXCEPT !.pc = "save",
                               !.loss_history = Append(@, call.loss),
                               !.epoch_history = Append(@, call.epoch + 1)]
             ELSE [call EXCEPT !.pc = "save"]
  /\ UNCHANGED <<mesh, pinn, store, edits, writes, lossLog, lastEval, failedAt>>

\* if (epoch + 1) % autosave_interval == 0: self.model.save(...); next epoch
AutosaveStep ==
  /\ call.pc = "save"
  /\ IF AutosaveDue(call.epoch, call.autosave_interval)
     THEN /\ store' = [store EXCEPT ![SavePath(pinn)] =
                         [saved |-> TRUE, theta |-> pinn.theta]]
          /\ writes' = Append(writes, [step |-> call.epoch + 1,
                                       tag |-> SavePath(pinn),
                                       theta |-> pinn.theta])
     ELSE UNCHANGED <<store, writes>>
  /\ call' = [call EXCEPT !.epoch = @ + 1, !.pc = LoopHead(call.epoch + 1, call.epochs)]
  /\ UNCHANGED <<mesh, pinn, edits, lossLog, lastEval, failedAt>>

Next ==
  \/ GenerateMesh
  \/ MeshGenerate
  \/ RegisterCavityBoundaries
  \/ Train
  \/ TrainStepLoss
  \/ TrainStepLossFails
  \/ TrainStepApply
  \/ PrintStep
  \/ AutosaveStep

Spec == Init /\ [][Next]_vars

\* The same program with a caller that also edits boundary dictionaries.
NextEdits == Next \/ EditBoundary

SpecEdits == Init /\ [][NextEdits]_vars

(***************************************************************************)
(* Several train calls, and several PINNs, in one process.  The files      *)
(* under trainedModels/ outlive the PINN that wrote them.                  *)
(***************************************************************************)
\* train called again on the same PINN, after a call that returned or
\* raised.  The optimizer steps of all the calls together stay within
\* MaxSessionSteps.
TrainAgain ==
  /\ call.pc \in {"done", "raised"}
  /\ \E epochs \in 0..MaxEpochs, print_interval \in 1..MaxInterval,
        autosave_interval \in 1..MaxInterval :
       /\ pinn.iterations + epochs <= MaxSessionSteps
       /\ call' = [Idle EXCEPT !.pc = LoopHead(0, epochs), !.epochs = epochs,
                                !.print_interval = print_interval,
                                !.autosave_interval = autosave_interval,
                                !.iterations0 = pinn.iterations]
  /\ writes' = <<>>
  /\ lossLog' = <<>>
  /\ failedAt' = 0
  /\ lastEval' = NoEval
  /\ UNCHANGED <<mesh, pinn, store, edits>>

\* PINN(..., eq=...): a new PINN, with a new optimizer, takes the place of
\* the one whose train call is over.  It is built for a problem that has
\* no checkpoint yet.
Construct ==
  /\ call.pc \in {"done", "raised"}
  /\ pinn.iterations < MaxSessionSteps
  /\ \E eq \in Tags \ {pinn.eq}, theta \in InitialThetas :
       /\ ~store[eq].saved
       /\ pinn' = [eq |-> eq, theta |-> theta, iterations |-> 0]
  /\ call' = Idle
  /\ writes' = <<>>
  /\ lossLog' = <<>>
  /\ failedAt' = 0
  /\ lastEval' = NoEval
  /\ UNCHANGED <<mesh, store, edits>>

NextSessions == Next \/ TrainAgain \/ Construct

SpecSessions == Init /\ [][NextSessions]_vars

(***************************************************************************)
(* Properties.                                                             *)
(***************************************************************************)
InLoop == call.pc \in {"loss", "apply", "print", "save"}

Multiples(n, k) == [i \in 1..(n \div k) |-> i * k]

\* Steps whose iteration has passed the print statement.
StepsPrinted == IF call.pc = "save" THEN call.epoch + 1 ELSE call.epoch

IsPrefix(s, t) == Len(s) <= Len(t) /\ \A i \in 1..Len(s) : s[i] = t[i]

\* C1: in a train call the checkpoint writes are exactly the steps
\* k = autosave_interval, 2*autosave_interval, ... among the steps whose
\* iteration has finished, in that order, each tagged with self.eq and
\* stored under that tag; a call that ran exactly autosave_interval epochs
\* made exactly one write.
C1_AutosaveCadence ==
  call.pc # "idle" =>
    /\ [i \in 1..Len(writes) |-> writes[i].step]
         = Multiples(call.epoch, call.autosave_interval)
    /\ \A i \in 1..Len(writes) : writes[i].tag = pinn.eq
    /\ store[pinn.eq].saved = (Len(writes) > 0)
    /\ \A t \in Tags \ {pinn.eq} : ~store[t].saved
    /\ (call.pc = "done" /\ call.epochs = call.autosave_interval) => Len(writes) = 1

C1_Witness ==
  /\ call.pc = "done"
  /\ call.epochs = call.autosave_interval
  /\ call.epochs = 2
  /\ pinn.eq = "FlowOverAirfoil"
  /\ Len(writes) = 1
  /\ writes[1].step = 2

\* C2 (state part): the loss history holds one entry for every step
\* k = print_interval, 2*print_interval, ... whose iteration has passed the
\* print statement, in increasing order, and the entry of step k is the loss
\* train_step returned at step k.
C2_HistoryContent ==
  call.pc # "idle" =>
    /\ call.epoch_history = Multiples(StepsPrinted, call.print_interval)
    /\ Len(call.loss_history) = Len(call.epoch_history)
    /\ \A i \in 1..Len(call.loss_history) :
         call.loss_history[i] = lossLog[call.epoch_history[i]]
    /\ \A i \in 1..(Len(call.epoch_history) - 1) :
         call.epoch_history[i] < call.epoch_history[i + 1]

\* C2 (step part): while train runs no step changes or removes an entry.
C2_AppendOnly ==
  call.pc # "idle" =>
    /\ IsPrefix(call.loss_history, call'.loss_history)
    /\ IsPrefix(call.epoch_history, call'.epoch_history)

\* C2: the loss history of a train call is append-only and holds exactly
\* the (step, loss) entries of the completed multiples of print_interval.
C2_LossHistory == [](C2_HistoryContent) /\ [][C2_AppendOnly]_vars

C2_Witness ==
  /\ call.pc = "done"
  /\ call.print_interval = 2
  /\ call.epoch_history = <<2, 4>>
  /\ call.loss_history[1] # lossLog[1]

\* C3 (state part): no step beyond the budget is taken, and a call that
\* has returned made exactly `epochs` loss evaluations and optimizer steps.
C3_BudgetCounts ==
  /\ call.epoch <= call.epochs
  /\ Len(lossLog) <= call.epochs
  /\ pinn.iterations - call.iterations0 <= call.epochs
  /\ InLoop => call.epoch < call.epochs
  /\ call.pc = "done" =>
       /\ call.epoch = call.epochs
       /\ Len(lossLog) = call.epochs
       /\ pinn.iterations - call.iterations0 = call.epochs
  /\ call.pc = "raised" => failedAt = call.epoch + 1

\* C3 (step part): the loop is left only with the budget used up or with an
\* exception of the loss evaluation, and a loss value, whatever it is, is
\* followed by the optimizer step.
C3_LeavesLoopOnly ==
  /\ (InLoop /\ call'.pc = "done") => call'.epoch = call.epochs
  /\ (InLoop /\ call'.pc = "raised") => (call.pc = "loss" /\ ~lastEval'.ok)
  /\ (call.pc = "loss" /\ lastEval'.ok) => call'.pc = "apply"

\* C3: the only stopping condition of the training loop is the epoch
\* budget: for any loss values (zero, not decreasing, non-finite) train
\* makes exactly `epochs` optimizer steps and returns.
C3_EpochBudget == [](C3_BudgetCounts) /\ [][C3_LeavesLoopOnly]_vars

\* The loss reached zero at step 2, stayed there, and training went on to
\* the end of a budget of four epochs.
C3_Witness ==
  /\ call.pc = "done"
  /\ call.epochs = 4
  /\ lossLog[1] # F(0)
  /\ lossLog[2] = F(0)
  /\ lossLog[3] = F(0)
  /\ pinn.iterations = 4

\* C4: a step whose loss or gradients are non-finite leaves the parameters
\* as they were before the step, and the loop goes on.  (The code applies
\* the optimizer step whatever the loss is.)
C4_SkipsNonFiniteStep ==
  [][(call.pc = "apply"
      /\ (~IsFinite(call.loss) \/ ~IsFinite(Gradients(mesh, pinn.theta))))
     => (pinn'.theta = pinn.theta /\ call'.pc = "print")]_vars

\* A boundary that lacks x, y or its conditions map, or whose coordinates
\* are unset.
LacksConfiguration(b) ==
  \/ \E key \in {"x", "y", "conditions"} : IsAbsent(b[key])
  \/ IsNone(b.x)
  \/ IsNone(b.y)

IllConfigured(m) ==
  \E i \in 1..Len(m.boundaries \o m.interiorBoundaries) :
    LacksConfiguration((m.boundaries \o m.interiorBoundaries)[i])

\* C5: when train is called, with epochs to run, on a mesh with an
\* ill-configured boundary, the call raises a configuration error before
\* the loop is entered: no loss evaluation and no optimizer step of that
\* call happens.  (train validates nothing; only generateMesh does, on the
\* boundaries it has just built.)
C5_ConfigurationErrorBeforeTraining ==
  (call.pc # "idle" /\ call.epochs > 0 /\ IllConfigured(mesh)) =>
    /\ call.pc = "raised"
    /\ failedAt = 0
    /\ lastEval = NoEval
    /\ pinn.iterations = call.iterations0

Names(bs) == {bs[i].name : i \in 1..Len(bs)}

\* C6: a loss evaluation that returns has counted every boundary registered
\* on the mesh, exterior and interior, exactly once.  (The loop reads
\* mesh.boundaries only.)
C6_EveryBoundaryCounted ==
  (lastEval.ok /\ lastEval.ran2D) =>
    /\ {lastEval.counted[i] : i \in 1..Len(lastEval.counted)}
         = Names(mesh.boundaries) \cup Names(mesh.interiorBoundaries)
    /\ Len(lastEval.counted) = Len(mesh.boundaries) + Len(mesh.interiorBoundaries)

\* The condition spec of component c ("u", "v", "p") of a boundary: the
\* entry of its conditions map when it has one, else its own entry c.
SpecOf(b, c) == IF IsAbsent(b.conditions) THEN b[c] ELSE b["c" \o c]

Unconstrained(b, c) == SpecOf(b, c).k \in {"None", "absent"}

TermIndex(c) == CASE c = "u" -> 1 [] c = "v" -> 2 [] c = "p" -> 3

\* C7: for every boundary of the mesh, evaluating it raises nothing when
\* all its components are unconstrained, and every unconstrained component
\* contributes exactly 0, whatever the parameters are.  (A boundary in the
\* conditions layout, such as the Outlet, has no u, v, p entries to read.)
C7_UnconstrainedIsZero ==
  \A i \in 1..Len(mesh.boundaries) :
    LET b == mesh.boundaries[i]
        r == BoundaryLoss(pinn.theta, b)
    IN  /\ (\A c \in {"u", "v", "p"} : Unconstrained(b, c)) => (r.ok /\ r.val = F(0))
        /\ \A c \in {"u", "v", "p"} :
             (Unconstrained(b, c) /\ r.ok) => r.terms[TermIndex(c)] = F(0)

\* mean((d p / d axis - g)^2) over the points of a boundary
NeumannTerm(theta, b, idx, g, axis) ==
  ReduceMean([i \in 1..Len(b.x.a) |->
                Square(Sub(ModelGrad(theta, b.x.a[i], b.y.a[i], idx, axis), g))])

\* C8: for every boundary of the mesh whose pressure spec is
\* {gradient: g, direction: x or y}, the pressure term of the boundary loss
\* is the mean squared difference between g and the derivative of the
\* pressure channel along that axis.  (The code has no derivative term.)
C8_NeumannTerm ==
  \A i \in 1..Len(mesh.boundaries) :
    LET b == mesh.boundaries[i]
        s == SpecOf(b, "p")
        r == BoundaryLoss(pinn.theta, b)
    IN  (s.k = "gradient" /\ s.dir \in {"x", "y"} /\ b.x.k = "arr" /\ b.y.k = "arr") =>
          /\ r.ok
          /\ r.terms[3] = NeumannTerm(pinn.theta, b, 2, s.a[1], s.dir)

\* C9: on a mesh that is not 2D a train call makes no optimizer step and
\* never runs the 2D loss: the first loss request raises
\* NotImplementedError and ends the call.
C9_NotImplementedFor3D ==
  (~mesh.is2D /\ call.pc # "idle") =>
    /\ pinn.iterations = call.iterations0
    /\ ~lastEval.ran2D
    /\ lossLog = <<>>
    /\ call.pc \in {"loss", "done", "raised"}
    /\ call.pc = "done" => call.epochs = 0
    /\ call.pc = "raised" => (call.err = "NotImplementedError" /\ failedAt = 1)

\* A 3D mesh that holds everything the 2D loss needs.
C9_Witness ==
  /\ ~mesh.is2D
  /\ ~IsNone(mesh.X)
  /\ Len(mesh.boundaries) > 0
  /\ call.pc = "raised"
  /\ call.err = "NotImplementedError"

\* C10: once the loss evaluation of step k has raised, the call is over
\* with that exception: the optimizer has made k - 1 steps, the history and
\* the checkpoint writes are those of the steps before k, and nothing more
\* happens in the call.
C10_LossExceptionAborts ==
  failedAt # 0 =>
    /\ call.pc = "raised"
    /\ call.err = lastEval.err
    /\ call.err # ""
    /\ call.epoch = failedAt - 1
    /\ pinn.iterations - call.iterations0 = failedAt - 1
    /\ Len(lossLog) = failedAt - 1
    /\ call.epoch_history = Multiples(failedAt - 1, call.print_interval)
    /\ [i \in 1..Len(writes) |-> writes[i].step]
         = Multiples(failedAt - 1, call.autosave_interval)

C10_Witness ==
  /\ failedAt = 3
  /\ call.pc = "raised"
  /\ call.epochs = 4
  /\ Len(writes) = 2
  /\ call.epoch_history = <<2>>

\* The checkpoint model.save leaves: the parameters of the moment.
Snapshot(theta) == [saved |-> TRUE, theta |-> theta]

\* C11 (state part): once the train call has autosaved, the one checkpoint
\* of its problem identifier is the snapshot of its latest autosave.
C11_LatestSnapshot ==
  Len(writes) > 0 => store[pinn.eq] = Snapshot(writes[Len(writes)].theta)

\* C11 (step part): a step changes the checkpoint of an identifier only
\* when it is the due autosave of a PINN with that identifier, and then
\* the checkpoint becomes the snapshot of the parameters of that moment;
\* the checkpoints of all other identifiers stay as they are.
C11_OverwritesOwnOnly ==
  \A t \in Tags :
    IF /\ call.pc = "save"
       /\ (call.epoch + 1) % call.autosave_interval = 0
       /\ t = pinn.eq
    THEN store'[t] = Snapshot(pinn.theta)
    ELSE store'[t] = store[t]

\* C11: checkpoints are overwritten, not versioned: per problem identifier
\* there is one checkpoint, it holds the snapshot of the most recent
\* autosave under that identifier, and autosaves under one identifier
\* leave the checkpoints of the others alone.
C11_CheckpointOverwritten ==
  [](C11_LatestSnapshot) /\ [][C11_OverwritesOwnOnly]_vars

\* A second PINN has autosaved twice, with different parameters, while the
\* checkpoint of the first PINN's problem is still there.
C11_Witness ==
  /\ Len(writes) >= 2
  /\ writes[1].theta # writes[Len(writes)].theta
  /\ store[pinn.eq].theta = writes[Len(writes)].theta
  /\ \E t \in Tags \ {pinn.eq} :
       store[t].saved /\ store[t].theta # store[pinn.eq].theta

\* A boundary whose point set is empty.
ZeroPoints(b) ==
  /\ b.x.k = "arr" /\ Len(b.x.a) = 0
  /\ b.y.k = "arr" /\ Len(b.y.a) = 0

\* C12: evaluating a boundary of the mesh that has zero points raises
\* nothing and gives 0 for each of its three components, and the loss
\* train_step has just obtained is the loss of the mesh without its
\* zero-point boundaries.  (The mean of an empty tensor is NaN: a
\* constrained component of such a boundary makes the total NaN.)
C12_EmptyBoundaryIsZero ==
  /\ \A i \in 1..Len(mesh.boundaries) :
       LET b == mesh.boundaries[i]
           r == BoundaryLoss(pinn.theta, b)
       IN  ZeroPoints(b) =>
             (r.ok /\ r.val = F(0) /\ r.terms = <<F(0), F(0), F(0)>>)
  /\ call.pc = "apply" => call.loss = SmoothLoss(mesh, pinn.theta)

\* Optimizer updates the train call has made.
UpdatesInCall == pinn.iterations - call.iterations0

\* C13 (state part): in epoch k = call.epoch + 1 the loss is evaluated and
\* recorded after k - 1 updates; the history append and the checkpoint
\* write of the epoch come after its update, the k-th.
C13_UpdatesAtStage ==
  /\ call.pc = "loss" => (UpdatesInCall = call.epoch /\ Len(lossLog) = call.epoch)
  /\ call.pc = "apply" => (UpdatesInCall = call.epoch /\ Len(lossLog) = call.epoch + 1)
  /\ call.pc \in {"print", "save"} =>
       (UpdatesInCall = call.epoch + 1 /\ Len(lossLog) = call.epoch + 1)

\* C13 (step part): the stages of an epoch follow one another in the order
\* loss, update, history append, checkpoint write; the loss is computed on
\* the parameters of the moment and only the update changes them; the
\* appended entry is that loss, the written checkpoint holds the updated
\* parameters.
C13_StageOrder ==
  /\ (call.pc = "loss" /\ call'.pc # "raised") =>
       /\ call'.pc = "apply"
       /\ call'.loss = loss_function(mesh, pinn.theta).val
       /\ lossLog' = Append(lossLog, call'.loss)
       /\ UNCHANGED <<pinn, writes, store>>
       /\ call'.loss_history = call.loss_history
  /\ call.pc = "apply" =>
       /\ call'.pc = "print"
       /\ pinn'.theta = apply_gradients(pinn.theta, Gradients(mesh, pinn.theta))
       /\ pinn'.iterations = pinn.iterations + 1
       /\ UNCHANGED <<writes, store, lossLog>>
       /\ call'.loss_history = call.loss_history
  /\ call.pc = "print" =>
       /\ call'.pc = "save"
       /\ UNCHANGED <<pinn, writes, store, lossLog>>
       /\ call'.loss_history # call.loss_history =>
            /\ call'.loss_history = Append(call.loss_history, lossLog[call.epoch + 1])
            /\ call'.epoch_history = Append(call.epoch_history, call.epoch + 1)
  /\ call.pc = "save" =>
       /\ call'.pc \in {"loss", "done"}
       /\ call'.epoch = call.epoch + 1
       /\ UNCHANGED <<pinn, lossLog>>
       /\ call'.loss_history = call.loss_history
       /\ writes' # writes =>
            writes' = Append(writes, [step |-> call.epoch + 1, tag |-> pinn.eq,
                                      theta |-> pinn.theta])

\* C13: within every epoch of train the order is loss evaluation, optimizer
\* update, history append if due, checkpoint write if due: the loss
\* recorded for step k is the loss on the parameters after k - 1 updates,
\* the checkpoint of step k holds the parameters after k updates.
C13_OrderWithinEpoch == [](C13_UpdatesAtStage) /\ [][C13_StageOrder]_vars

\* Two epochs with print and autosave at each: the parameters and the loss
\* differ from step to step, and the loss recorded for step 2 is not the
\* loss of the parameters the checkpoint of step 2 holds.
C13_Witness ==
  /\ call.pc = "done"
  /\ call.epochs = 2
  /\ call.epoch_history = <<1, 2>>
  /\ Len(writes) = 2
  /\ writes[1].theta # writes[2].theta
  /\ call.loss_history[1] # call.loss_history[2]
  /\ call.loss_history[2] = loss_function(mesh, writes[1].theta).val
  /\ call.loss_history[2] # loss_function(mesh, writes[2].theta).val

\* train_step executions of the train call that have returned.
StepsReturned == IF call.pc = "apply" THEN Len(lossLog) - 1 ELSE Len(lossLog)

\* C14 (state part): the optimizer's step count is its count at the start
\* of the train call plus the train_step executions of the call that have
\* returned.
C14_StepCount ==
  /\ pinn.iterations = call.iterations0 + StepsReturned
  /\ call.pc = "idle" => pinn.iterations = 0

\* C14 (step part): a train call starts with empty history lists and epoch
\* 0, takes the parameters and the optimizer's step count as they are, and
\* only an optimizer update (by exactly one) or the construction of a new
\* PINN (to zero) changes the step count.
C14_CallStart ==
  /\ (call.pc \in {"idle", "done", "raised"} /\ call'.pc \in {"loss", "done"}) =>
       /\ call'.loss_history = <<>>
       /\ call'.epoch_history = <<>>
       /\ call'.epoch = 0
       /\ lossLog' = <<>>
       /\ pinn' = pinn
       /\ call'.iterations0 = pinn.iterations
  /\ pinn'.iterations # pinn.iterations =>
       \/ call.pc = "apply" /\ pinn'.iterations = pinn.iterations + 1
       \/ call'.pc = "idle" /\ pinn'.iterations = 0
  /\ pinn'.theta # pinn.theta => (call.pc = "apply" \/ call'.pc = "idle")

\* C14: across the train calls on one PINN the history lists and the epoch
\* counter restart in each call, while the parameters and the optimizer's
\* step count carry over: the step count is the number of train_step
\* executions that have returned since the PINN was constructed.
C14_AcrossTrainCalls == [](C14_StepCount) /\ [][C14_CallStart]_vars

\* A second train call on the same PINN has returned: its history starts
\* again at step 1, the step count went on from the first call's.
C14_Witness ==
  /\ call.pc = "done"
  /\ call.iterations0 > 0
  /\ call.epochs > 0
  /\ call.epoch_history = <<1>>
  /\ Len(call.loss_history) = 1
  /\ pinn.iterations = call.iterations0 + call.epochs

====
